---- MODULE Spec2Model ----
(***************************************************************************)
(* Model of app_snowflake_aula.py: a Streamlit script that is re-executed  *)
(* top to bottom on every user interaction, with a memoized warehouse      *)
(* connection (st.cache_resource), a query cache with a time-to-live       *)
(* (st.cache_data(ttl=600)), a filter over the menu data frame and a CSV   *)
(* export of the filtered frame.                                           *)
(***************************************************************************)
EXTENDS Integers, Sequences, FiniteSets, TLC

(***************************************************************************)
(* Program constants                                                       *)
(***************************************************************************)

\* @st.cache_data(ttl=600)
TTL == 600

\* the dashboard's query (the text of lines 125-135, abbreviated)
MenuQuery == "SELECT MENU_ITEM_NAME, ... FROM MENU"

\* the text area's initial value when st.session_state has no 'query'
DefaultQuery == "SELECT * FROM MENU LIMIT 10"

\* the six canned example buttons, in source order (texts abbreviated)
Canned ==
    <<"SELECT * FROM MENU LIMIT 20",
      "SELECT MENU_ITEM_NAME, SALE_PRICE_USD ... LIMIT 10",
      "SELECT * FROM MENU WHERE ITEM_CATEGORY = 'Dessert'",
      "SELECT ITEM_CATEGORY, COUNT(*) AS TOTAL ...",
      "SELECT ITEM_CATEGORY, ROUND(AVG(...)) AS AVG_MARGIN ...",
      "SELECT MENU_ITEM_NAME, ROUND(...) AS MARGIN ... > 0.7 ...">>

CannedIds == 1..Len(Canned)

CannedTexts == {Canned[i] : i \in CannedIds}

(***************************************************************************)
(* Bounds of the model                                                     *)
(***************************************************************************)

\* the clock advances in steps of TickShort or TickLong seconds, up to MaxTime
TickShort == 299

TickLong == 301

MaxTime == 1200

\* successful connects the model follows (the program makes one)
MaxConnects == 3

\* a text the user types that is none of the program's texts
CustomQuery == "SELECT 1"

\* what the user may type into the text area
UserTexts == {CustomQuery, MenuQuery, Canned[1]}

Texts == {DefaultQuery, CustomQuery, MenuQuery} \cup CannedTexts

(***************************************************************************)
(* Values standing for "nothing"                                           *)
(***************************************************************************)

NoConn == 0

Unset == "<unset>"

NoWidget == "<no widget>"

NoEdit == "<no edit>"

NoResult == <<"", -1>>

NoEntry == [ts |-> -1, res |-> NoResult]

\* kind: "hit" (served from the cache), "ok" (executed), "error" (the warehouse
\* refused the query), "closed" (the driver refused: the connection is closed),
\* "noconn" (init_connection raised)
NoCall == [n |-> 0, q |-> "", kind |-> "none", ret |-> NoResult,
           stale |-> FALSE, age |-> -1, before |-> [x \in Texts |-> NoEntry],
           at |-> -1]

VARIABLES
    now,            \* the wall clock, in seconds
    resource,       \* st.cache_resource's entry for init_connection: a handle or NoConn
    closed,         \* the handles whose close() has run
    connects,       \* successful snowflake.connector.connect calls so far
    cache,          \* st.cache_data's entries for run_query: query text -> entry
    pc,             \* where the script run is ("idle" between runs)
    trigger,        \* the interaction that started the current run
    conectado,      \* the script's variable conectado ("undefined" or "true")
    rendered,       \* what the current (or last) run has put on the page
    halted,         \* how the last run ended: "", "complete", "stop", "exception"
    df,             \* the script's variable df
    last,           \* the last run_query call of the current run
    between,        \* per cached text: the outcomes of the calls made with other
                    \* texts since its entry was stored (history)
    session_query,  \* st.session_state.query
    ta_id,          \* the value= the text area on the page was created with
    ta_user,        \* what the user typed into that text area
    query_text,     \* the script's variable query_text
    R,              \* the explorer tab's data frame df: a sequence of rows
    categorias,     \* the multiselect's selection of categories
    subcategorias,  \* the multiselect's selection of subcategories
    preco_min,      \* the slider's lower end
    preco_max,      \* the slider's upper end
    df_filtrado,    \* the filtered frame
    csv,            \* the exported payload, a sequence of characters
    vpc             \* where the explorer tab's computation is

vars == <<now, resource, closed, connects, cache, pc, trigger, conectado,
          rendered, halted, df, last, between, session_query, ta_id, ta_user,
          query_text, R, categorias, subcategorias, preco_min, preco_max,
          df_filtrado, csv, vpc>>

viewVars == <<R, categorias, subcategorias, preco_min, preco_max, df_filtrado,
              csv, vpc>>

appVars == <<now, resource, closed, connects, cache, pc, trigger, conectado,
             rendered, halted, df, last, between, session_query, ta_id, ta_user,
             query_text>>

(***************************************************************************)
(* init_connection and run_query, with the two caching decorators          *)
(***************************************************************************)

\* a slip: init_connection without its @st.cache_resource decorator
init_connection_unmemoized(conn_ok) ==
    LET h == IF conn_ok THEN connects + 1 ELSE NoConn
    IN  [handle   |-> h,
         resource |-> IF h # NoConn THEN h ELSE resource,
         connects |-> IF h # NoConn THEN connects + 1 ELSE connects]

\* @st.cache_resource def init_connection(): the memoized handle when there is
\* one, else the handle of a new snowflake.connector.connect (conn_ok: the
\* warehouse accepts the credentials); NoConn stands for the raised exception
init_connection(conn_ok) ==
    LET h == IF resource # NoConn THEN resource
             ELSE IF conn_ok THEN connects + 1
             ELSE NoConn
    IN  [handle   |-> h,
         resource |-> IF resource # NoConn THEN resource ELSE h,
         connects |-> IF resource = NoConn /\ h # NoConn THEN connects + 1
                      ELSE connects]

\* a slip: the time-to-live given as 60 seconds
FreshShortTtl(e) == e # NoEntry /\ now - e.ts < 60

\* st.cache_data(ttl=600): an entry answers a call while it is younger than ttl
Fresh(e) == e # NoEntry /\ now - e.ts < TTL

\* the data the warehouse holds for query q at time t
Warehouse(q, t) == <<q, t>>

\* pd.read_sql(query, conn): the driver refuses a closed connection before any
\* round trip; otherwise the warehouse answers with the data or with an error
read_sql(q, h, isClosed, wh_ok) ==
    IF isClosed THEN [kind |-> "closed", ret |-> NoResult]
    ELSE IF wh_ok THEN [kind |-> "ok", ret |-> Warehouse(q, now)]
    ELSE [kind |-> "error", ret |-> NoResult]

\* the exit of `with init_connection() as conn`: the connection's __exit__
\* closes it, whether the block returned or raised
ConnExit(h) == closed \cup {h}

\* the body of run_query: with init_connection() as conn: return pd.read_sql(...)
run_query_body(q, conn_ok, wh_ok) ==
    LET c == init_connection(conn_ok)
        r == read_sql(q, c.handle, c.handle \in closed, wh_ok)
    IN  IF c.handle = NoConn
        THEN [kind |-> "noconn", ret |-> NoResult, resource |-> c.resource,
              connects |-> c.connects, closed |-> closed]
        ELSE [kind |-> r.kind, ret |-> r.ret, resource |-> c.resource,
              connects |-> c.connects, closed |-> ConnExit(c.handle)]

\* a slip: the exception caught inside run_query and an empty result returned,
\* which the decorator then stores
cache_store_always(q, b) ==
    [cache EXCEPT ![q] = [ts |-> now, res |-> b.ret]]

\* st.cache_data stores the value a call returned; a call that raised stores nothing
cache_store(q, b) ==
    IF b.kind = "ok"
    THEN [cache EXCEPT ![q] = [ts |-> now, res |-> b.ret]]
    ELSE cache

\* @st.cache_data(ttl=600) def run_query(query): the n-th call of the run
run_query(n, q, conn_ok, wh_ok) ==
    LET e == cache[q]
        b == run_query_body(q, conn_ok, wh_ok)
        call == [n |-> n, q |-> q, stale |-> (e # NoEntry /\ ~Fresh(e)),
                 age |-> IF e = NoEntry THEN -1 ELSE now - e.ts,
                 before |-> cache, at |-> now]
    IN  IF Fresh(e)
        THEN [call |-> [kind |-> "hit", ret |-> e.res] @@ call,
              cache |-> cache, resource |-> resource, connects |-> connects,
              closed |-> closed]
        ELSE [call |-> [kind |-> b.kind, ret |-> b.ret] @@ call,
              cache |-> cache_store(q, b), resource |-> b.resource,
              connects |-> b.connects, closed |-> b.closed]

\* history: the call just made is recorded for every other text; a text whose
\* entry was just stored starts anew
Between(call) ==
    [x \in Texts |->
        IF x = call.q
        THEN (IF call.kind = "ok" THEN {} ELSE between[x])
        ELSE IF cache[x] = NoEntry THEN between[x]
        ELSE between[x] \cup {call.kind}]

Raised(call) == call.kind \in {"error", "closed", "noconn"}

(***************************************************************************)
(* The text area of the query tab                                          *)
(***************************************************************************)

\* value=st.session_state.get('query', "SELECT * FROM MENU LIMIT 10")
TextAreaValue(sq) == IF sq = Unset THEN DefaultQuery ELSE sq

\* st.text_area without a key: the widget is identified by its arguments, value
\* among them. Called with the value the widget on the page was created with,
\* it returns what the user typed there; with another value it is a new widget
\* that shows that value
text_area(value) ==
    IF ta_id = value /\ ta_user # NoEdit THEN ta_user ELSE value

\* what the text area on the page shows
TextAreaContent == IF ta_user # NoEdit THEN ta_user ELSE ta_id

(***************************************************************************)
(* The initial state: a started process, nothing run yet                    *)
(***************************************************************************)

AppInit ==
    /\ now = 0
    /\ resource = NoConn
    /\ closed = {}
    /\ connects = 0
    /\ cache = [q \in Texts |-> NoEntry]
    /\ pc = "idle"
    /\ trigger = [kind |-> "load", i |-> 0]
    /\ conectado = "undefined"
    /\ rendered = {}
    /\ halted = ""
    /\ df = NoResult
    /\ last = NoCall
    /\ between = [x \in Texts |-> {}]
    /\ session_query = Unset
    /\ ta_id = NoWidget
    /\ ta_user = NoEdit
    /\ query_text = Unset

(***************************************************************************)
(* The explorer tab: the filter (lines 242-247) and the export (line 272)  *)
(***************************************************************************)

\* A cell of a data frame: NULL, a text (a sequence of characters) or a number
Null == [t |-> "null"]

Str(s) == [t |-> "str", s |-> s]

Num(n) == [t |-> "num", n |-> n]

\* The frame's columns the filter and the export read, in the query's order
\* (COST_OF_GOODS_USD, PROFIT and MARGIN_PERCENT are numbers exported the way
\* SALE_PRICE_USD is)
Columns ==
    <<<<"M", "E", "N", "U", "_", "I", "T", "E", "M", "_", "N", "A", "M", "E">>,
      <<"I", "T", "E", "M", "_", "C", "A", "T", "E", "G", "O", "R", "Y">>,
      <<"I", "T", "E", "M", "_", "S", "U", "B", "C", "A", "T", "E", "G", "O", "R", "Y">>,
      <<"S", "A", "L", "E", "_", "P", "R", "I", "C", "E", "_", "U", "S", "D">>>>

\* a row's cells in column order
RowCells(r) == <<r.name, r.cat, r.sub, r.price>>

\* a slip: > for >=
PriceGt(c, lo) == c.t = "num" /\ c.n > lo

\* df['SALE_PRICE_USD'] >= preco_min and <= preco_max: a comparison with a
\* missing value is False
PriceGe(c, lo) == c.t = "num" /\ c.n >= lo

PriceLe(c, hi) == c.t = "num" /\ c.n <= hi

\* the boolean mask of lines 243-246: isin, isin, >=, <= combined with &
Mask(r) ==
    /\ r.cat \in categorias
    /\ r.sub \in subcategorias
    /\ PriceGe(r.price, preco_min)
    /\ PriceLe(r.price, preco_max)

\* df[mask]: the rows whose mask is True, in the frame's order
BoolIndex(frame) == SelectSeq(frame, Mask)

\* the decimal digits of a natural number
RECURSIVE Digits(_)
Digits(n) ==
    IF n < 10 THEN <<CASE n = 0 -> "0" [] n = 1 -> "1" [] n = 2 -> "2"
                       [] n = 3 -> "3" [] n = 4 -> "4" [] n = 5 -> "5"
                       [] n = 6 -> "6" [] n = 7 -> "7" [] n = 8 -> "8"
                       [] OTHER -> "9">>
    ELSE Digits(n \div 10) \o Digits(n % 10)

\* to_csv's text of a cell: na_rep='' for a missing value, a text as it is, a
\* number in decimal
CellText(c) ==
    CASE c.t = "null" -> <<>>
      [] c.t = "str" -> c.s
      [] OTHER -> IF c.n < 0 THEN <<"-">> \o Digits(-c.n) ELSE Digits(c.n)

\* a slip: a writer that quotes only for the delimiter and line breaks
NeedsQuoteNoQuoteChar(f) == \E i \in 1..Len(f) : f[i] \in {",", "\n", "\r"}

\* csv.QUOTE_MINIMAL: a field is quoted when it holds the delimiter, the quote
\* character or a line break
NeedsQuote(f) == \E i \in 1..Len(f) : f[i] \in {",", "\"", "\n", "\r"}

\* doublequote=True: a quote character inside a quoted field is written twice
RECURSIVE DoubleQuotes(_)
DoubleQuotes(f) ==
    IF f = <<>> THEN <<>>
    ELSE (IF Head(f) = "\"" THEN <<"\"", "\"">> ELSE <<Head(f)>>)
         \o DoubleQuotes(Tail(f))

CsvField(f) ==
    IF NeedsQuote(f) THEN <<"\"">> \o DoubleQuotes(f) \o <<"\"">> ELSE f

\* one line: the fields joined by commas, ended by the line terminator
RECURSIVE JoinFields(_)
JoinFields(fs) ==
    IF Len(fs) = 1 THEN CsvField(fs[1])
    ELSE CsvField(fs[1]) \o <<",">> \o JoinFields(Tail(fs))

CsvLine(fs) == JoinFields(fs) \o <<"\n">>

RECURSIVE CsvLines(_)
CsvLines(rows) ==
    IF rows = <<>> THEN <<>>
    ELSE CsvLine([i \in 1..Len(Columns) |-> CellText(RowCells(Head(rows))[i])])
         \o CsvLines(Tail(rows))

\* frame.to_csv(index=False): the header line, then one line per row (the line
\* terminator is the platform's; "\n" here)
to_csv(frame) == CsvLine(Columns) \o CsvLines(frame)

\* lines 242-247
ApplyFilter ==
    /\ vpc = "filter"
    /\ df_filtrado' = BoolIndex(R)
    /\ vpc' = "export"
    /\ UNCHANGED <<R, categorias, subcategorias, preco_min, preco_max, csv>>
    /\ UNCHANGED appVars

\* line 272
ExportCsv ==
    /\ vpc = "export"
    /\ csv' = to_csv(df_filtrado)
    /\ vpc' = "done"
    /\ UNCHANGED <<R, categorias, subcategorias, preco_min, preco_max, df_filtrado>>
    /\ UNCHANGED appVars

ViewNext == ApplyFilter \/ ExportCsv

\* the explorer tab's variables while the script run is followed as a whole
ViewOff ==
    /\ R = <<>>
    /\ categorias = {}
    /\ subcategorias = {}
    /\ preco_min = 0
    /\ preco_max = 0
    /\ df_filtrado = <<>>
    /\ csv = <<>>
    /\ vpc = "off"

Init == AppInit /\ ViewOff

(***************************************************************************)
(* The explorer tab on its own, over bounded inputs                         *)
(***************************************************************************)

\* rows per frame
MaxRows == 2

\* prices range over 1..MaxPrice (and NULL)
MaxPrice == 2

Dessert == Str(<<"D", "e", "s", "s", "e", "r", "t">>)

Main == Str(<<"M", "a", "i", "n">>)

Hot == Str(<<"H", "o", "t">>)

Cold == Str(<<"C", "o", "l", "d">>)

Pie == Str(<<"P", "i", "e">>)

\* the frames of at most MaxRows rows over a set of rows
Frames(rows) == UNION {[1..n -> rows] : n \in 0..MaxRows}

\* inputs for the filter: every combination of category, subcategory and price
FilterRows ==
    [name : {Pie}, cat : {Dessert, Main}, sub : {Hot, Cold},
     price : {Null} \cup {Num(n) : n \in 1..MaxPrice}]

ViewStart ==
    /\ df_filtrado = <<>>
    /\ csv = <<>>
    /\ vpc = "filter"

FilterInit ==
    /\ AppInit
    /\ R \in Frames(FilterRows)
    /\ categorias \in SUBSET {Dessert, Main}
    /\ subcategorias \in SUBSET {Hot, Cold}
    /\ preco_min \in 1..MaxPrice
    /\ preco_max \in preco_min..MaxPrice
    /\ ViewStart

FilterSpec == FilterInit /\ [][ViewNext]_vars

\* inputs for the export: names that are empty, look like a number, or hold
\* the delimiter, the quote character or a line break; a NULL subcategory
CsvNames ==
    {Str(<<>>), Str(<<"7">>), Str(<<"a", ",", "b">>), Str(<<"\"", "x">>),
     Str(<<"l", "\n", "m">>), Pie}

CsvRows ==
    [name : CsvNames, cat : {Main}, sub : {Null, Hot}, price : {Num(1), Num(12)}]

CsvInit ==
    /\ AppInit
    /\ R \in Frames(CsvRows)
    /\ categorias = {Main}
    /\ subcategorias = {Null, Hot}
    /\ preco_min = 1
    /\ preco_max \in {1, 12}
    /\ ViewStart

CsvSpec == CsvInit /\ [][ViewNext]_vars

(***************************************************************************)
(* Time                                                                    *)
(***************************************************************************)

Tick ==
    /\ UNCHANGED viewVars
    /\ \E d \in {TickShort, TickLong} :
         /\ now + d <= MaxTime
         /\ now' = now + d
    /\ UNCHANGED <<resource, closed, connects, cache, pc, trigger, conectado,
                   rendered, halted, df, last, between, session_query, ta_id, ta_user,
                   query_text>>

(***************************************************************************)
(* One script run, started by an interaction                                *)
(***************************************************************************)

\* the widgets of the query tab can be used when the last run rendered them
OnPage(k) == k = "rerun" \/ "tab3" \in rendered

BeginRun(k, i) ==
    /\ UNCHANGED viewVars
    /\ pc = "idle"
    /\ OnPage(k)
    /\ pc' = "sidebar"
    /\ trigger' = [kind |-> k, i |-> i]
    /\ conectado' = "undefined"
    /\ rendered' = {}
    /\ halted' = ""
    /\ df' = NoResult
    /\ last' = NoCall
    /\ UNCHANGED <<now, resource, closed, connects, cache, between,
                   session_query, ta_id, query_text>>

\* a rerun from the framework's menu, or the page being loaded
Rerun ==
    /\ BeginRun("rerun", 0)
    /\ UNCHANGED ta_user

\* the user types text into the text area and leaves it
EditText ==
    \E x \in UserTexts :
        /\ BeginRun("edit", 0)
        /\ ta_user' = x

\* the user presses one of the six example buttons
PressCanned ==
    \E i \in CannedIds :
        /\ BeginRun("canned", i)
        /\ UNCHANGED ta_user

\* the user presses "Executar Query"
PressExecute ==
    /\ BeginRun("execute", 0)
    /\ UNCHANGED ta_user

\* lines 58-100: the sidebar's connection check succeeds
SidebarConnected ==
    /\ UNCHANGED viewVars
    /\ pc = "sidebar"
    /\ \E conn_ok \in BOOLEAN :
         LET c == init_connection(conn_ok) IN
           /\ c.handle # NoConn
           /\ connects < MaxConnects \/ c.connects = connects
           /\ resource' = c.resource
           /\ connects' = c.connects
    /\ conectado' = "true"
    /\ rendered' = rendered \cup {"sidebar"}
    /\ pc' = "tab1"
    /\ UNCHANGED <<now, closed, cache, trigger, halted, df, last, between,
                   session_query, ta_id, ta_user, query_text>>

\* a slip: the except branch without st.stop()
SidebarFailedNoStop ==
    /\ UNCHANGED viewVars
    /\ pc = "sidebar"
    /\ init_connection(FALSE).handle = NoConn
    /\ rendered' = rendered \cup {"conn_error"}
    /\ pc' = "tab1"
    /\ UNCHANGED <<now, resource, closed, connects, cache, trigger, conectado,
                   halted, df, last, between, session_query, ta_id, ta_user,
                   query_text>>

\* lines 77-79: init_connection raised; st.error, then st.stop() ends the run
SidebarFailed ==
    /\ UNCHANGED viewVars
    /\ pc = "sidebar"
    /\ init_connection(FALSE).handle = NoConn
    /\ rendered' = rendered \cup {"conn_error"}
    /\ halted' = "stop"
    /\ pc' = "idle"
    /\ UNCHANGED <<now, resource, closed, connects, cache, trigger, conectado,
                   df, last, between, session_query, ta_id, ta_user, query_text>>

\* lines 106-205: the dashboard tab; run_query is called outside any try, so an
\* exception ends the run and the framework shows it
Tab1 ==
    /\ UNCHANGED viewVars
    /\ pc = "tab1"
    /\ conectado = "true"
    /\ \E conn_ok \in BOOLEAN, wh_ok \in BOOLEAN :
         LET r == run_query(1, MenuQuery, conn_ok, wh_ok) IN
           /\ last' = r.call
           /\ between' = Between(r.call)
           /\ cache' = r.cache
           /\ resource' = r.resource
           /\ connects' = r.connects
           /\ closed' = r.closed
           /\ IF Raised(r.call)
              THEN /\ rendered' = rendered \cup {"traceback"}
                   /\ halted' = "exception"
                   /\ pc' = "idle"
                   /\ df' = df
              ELSE /\ rendered' = rendered \cup {"tab1"}
                   /\ halted' = halted
                   /\ pc' = "tab2"
                   /\ df' = r.call.ret
    /\ UNCHANGED <<now, trigger, conectado, session_query, ta_id, ta_user,
                   query_text>>

\* lines 211-278: the explorer tab (the filter and the export are modelled by
\* ApplyFilter and ExportCsv below)
Tab2 ==
    /\ UNCHANGED viewVars
    /\ pc = "tab2"
    /\ rendered' = rendered \cup {"tab2"}
    /\ pc' = "tab3"
    /\ UNCHANGED <<now, resource, closed, connects, cache, trigger, conectado,
                   halted, df, last, between, session_query, ta_id, ta_user, query_text>>

\* lines 284-342: the query tab: the example buttons, the text area, and the
\* execute button with its try/except
Tab3 ==
    /\ UNCHANGED viewVars
    /\ pc = "tab3"
    /\ LET sq == IF trigger.kind = "canned" THEN Canned[trigger.i]
                 ELSE session_query
           value == TextAreaValue(sq)
           text == text_area(value)
       IN
         /\ session_query' = sq
         /\ query_text' = text
         /\ ta_id' = value
         /\ ta_user' = IF ta_id = value THEN ta_user ELSE NoEdit
         /\ IF trigger.kind = "execute"
            THEN \E conn_ok \in BOOLEAN, wh_ok \in BOOLEAN :
                   LET r == run_query(2, text, conn_ok, wh_ok) IN
                     /\ last' = r.call
                     /\ between' = Between(r.call)
                     /\ cache' = r.cache
                     /\ resource' = r.resource
                     /\ connects' = r.connects
                     /\ closed' = r.closed
                     /\ rendered' = rendered \cup {"tab3"} \cup
                          (IF Raised(r.call) THEN {"query_error"} ELSE {"result"})
            ELSE /\ rendered' = rendered \cup {"tab3"}
                 /\ UNCHANGED <<last, between, cache, resource, connects, closed>>
    /\ pc' = "tab4"
    /\ UNCHANGED <<now, trigger, conectado, halted, df>>

\* lines 348-476: the tutorial tab
Tab4 ==
    /\ UNCHANGED viewVars
    /\ pc = "tab4"
    /\ rendered' = rendered \cup {"tab4"}
    /\ pc' = "footer"
    /\ UNCHANGED <<now, resource, closed, connects, cache, trigger, conectado,
                   halted, df, last, between, session_query, ta_id, ta_user, query_text>>

\* lines 482-488: the footer; the run is complete
Footer ==
    /\ UNCHANGED viewVars
    /\ pc = "footer"
    /\ rendered' = rendered \cup {"footer"}
    /\ halted' = "complete"
    /\ pc' = "idle"
    /\ UNCHANGED <<now, resource, closed, connects, cache, trigger, conectado,
                   df, last, between, session_query, ta_id, ta_user, query_text>>

Next ==
    \/ Tick
    \/ Rerun
    \/ EditText
    \/ PressCanned
    \/ PressExecute
    \/ SidebarConnected
    \/ SidebarFailed
    \/ Tab1
    \/ Tab2
    \/ Tab3
    \/ Tab4
    \/ Footer

Spec == Init /\ [][Next]_vars

(***************************************************************************)
(* Properties                                                              *)
(***************************************************************************)

ContentPcs == {"tab1", "tab2", "tab3", "tab4", "footer"}

Tabs == {"tab1", "tab2", "tab3", "tab4"}

(* C1: a run_query call whose text has a cache entry younger than 600      *)
(* seconds returns the stored Result Set and executes nothing (the cache   *)
(* and the connection are as before the call), whatever calls with other   *)
(* texts were made since the entry was stored.                             *)
C1_HitWithinTtl ==
    (last.kind # "none" /\ last.age >= 0 /\ last.age < TTL) =>
        /\ last.kind = "hit"
        /\ last.ret = last.before[last.q].res
        /\ cache = last.before

\* a hit on an entry 598 seconds old, after a failed call with another text
C1_Witness ==
    /\ last.kind = "hit"
    /\ last.age = TickShort + TickShort
    /\ between[last.q] \cap {"closed", "error"} # {}

(* C2: a run_query call made when the entry of its text is 600 seconds old *)
(* or older does not return the stored result: it executes the query       *)
(* against the warehouse, and a successful execution is stored under the   *)
(* text with the time of the call and returned.                            *)
C2_RefreshAfterTtl ==
    last.stale =>
        /\ last.kind \in {"ok", "error"}
        /\ last.kind = "ok" =>
             /\ last.ret = Warehouse(last.q, last.at)
             /\ cache[last.q] = [ts |-> last.at, res |-> last.ret]

(* C3: once init_connection has succeeded, every later call returns the    *)
(* handle of that first success and no further connect is made: one        *)
(* connect in all.                                                         *)
C3_OneConnection ==
    /\ connects <= 1
    /\ resource # NoConn =>
         /\ connects = 1
         /\ resource = 1
         /\ \A conn_ok \in BOOLEAN :
              init_connection(conn_ok) =
                [handle |-> 1, resource |-> 1, connects |-> 1]

\* the handle has been asked for by the sidebar and inside run_query, in a
\* second call of the run
C3_Witness ==
    /\ resource = 1
    /\ last.n = 2
    /\ last.kind = "closed"

(* C4: when init_connection fails in a run, the error is reported and the  *)
(* run ends there: no run_query call, no tab, no footer; and the main      *)
(* content is only ever reached with conectado true.                       *)
C4_ConnectionFailureHalts ==
    /\ "conn_error" \in rendered =>
         /\ pc = "idle"
         /\ halted = "stop"
         /\ last = NoCall
         /\ rendered = {"conn_error"}
    /\ pc \in ContentPcs => conectado = "true"
    /\ rendered \cap (Tabs \cup {"footer"}) # {} => conectado = "true"

C4_Witness == halted = "stop" /\ "conn_error" \in rendered

(* C5: when a run_query call raises, for the dashboard's query as for an   *)
(* executed one, the error is shown inline and the run goes on: the        *)
(* remaining tabs and the footer are rendered.                             *)
C5_QueryFailureInline ==
    (pc = "idle" /\ Raised(last)) =>
        /\ halted = "complete"
        /\ {"tab2", "tab3", "tab4", "footer"} \subseteq rendered
        /\ "query_error" \in rendered

(* C7: the text executed is the text area's content; and after an example  *)
(* button is pressed the text area shows that button's query.              *)
C7_CannedShown ==
    /\ (trigger.kind = "execute" /\ last.n = 2) =>
         /\ last.q = TextAreaContent
         /\ last.q = query_text
    /\ (trigger.kind = "canned" /\ "tab3" \in rendered) =>
         /\ TextAreaContent = Canned[trigger.i]
         /\ query_text = Canned[trigger.i]

(* C9: the memoized connection handle is never closed.                     *)
C9_HandleStaysOpen == resource # NoConn => resource \notin closed

(* C10: a run_query call that raised leaves the cache as it was before the *)
(* call, and the next call with the same text is not answered from the     *)
(* cache.                                                                  *)
C10_FailureNotCached ==
    Raised(last) =>
        /\ cache = last.before
        /\ \A conn_ok \in BOOLEAN, wh_ok \in BOOLEAN :
             run_query(last.n, last.q, conn_ok, wh_ok).call.kind # "hit"

\* an executed query failed while the cache held the dashboard's result
C10_Witness ==
    /\ Raised(last)
    /\ last.n = 2
    /\ cache[MenuQuery] # NoEntry
    /\ cache[last.q] = NoEntry

\* the rows of R, by position, that the filter parameters admit
Admits(r) ==
    /\ r.cat \in categorias
    /\ r.sub \in subcategorias
    /\ r.price.t = "num"
    /\ preco_min <= r.price.n
    /\ r.price.n <= preco_max

Count(frame, r) == Cardinality({i \in 1..Len(frame) : frame[i] = r})

(* C6: df_filtrado holds exactly the rows of R whose category is selected, *)
(* whose subcategory is selected and whose price lies in the range: it is  *)
(* no longer than R, each of its rows meets the three conditions, and each *)
(* row of R that meets them is in it as often as in R.                     *)
C6_FilterExact ==
    vpc # "filter" =>
        /\ Len(df_filtrado) <= Len(R)
        /\ \A j \in 1..Len(df_filtrado) : Admits(df_filtrado[j])
        /\ \A i \in 1..Len(R) :
             Count(df_filtrado, R[i]) = IF Admits(R[i]) THEN Count(R, R[i]) ELSE 0

\* one row kept, and one dropped for its price alone
C6_Witness ==
    /\ vpc = "done"
    /\ Len(df_filtrado) = 1
    /\ \E i \in 1..Len(R) :
         /\ R[i].cat \in categorias
         /\ R[i].sub \in subcategorias
         /\ R[i].price.t = "num"
         /\ R[i].price.n > preco_max

\* A reader of comma-separated text with double-quoted fields. A comma or a
\* line break separates when an even number of quote characters precedes it
QuotesBefore(s, i) == Cardinality({k \in 1..(i - 1) : s[k] = "\""})

Separators(s, c) == {i \in 1..Len(s) : s[i] = c /\ QuotesBefore(s, i) % 2 = 0}

\* the k-th smallest element of a set of numbers
Kth(S, k) == CHOOSE x \in S : Cardinality({y \in S : y < x}) = k - 1

\* the pieces of s between the separators c; text after the last separator is
\* a piece of its own when keepLast
Pieces(s, c, keepLast) ==
    LET seps == Separators(s, c)
        n == Cardinality(seps)
        from(k) == IF k = 1 THEN 1 ELSE Kth(seps, k - 1) + 1
        to(k) == IF k = n + 1 THEN Len(s) ELSE Kth(seps, k) - 1
        m == IF keepLast \/ from(n + 1) <= Len(s) THEN n + 1 ELSE n
    IN  [k \in 1..m |-> SubSeq(s, from(k), to(k))]

\* the text of a field: an opening quote starts a quoted part, in which two
\* quotes stand for one and a single quote ends the part
RECURSIVE Unquote(_, _, _)
Unquote(f, i, mode) ==
    IF i > Len(f) THEN <<>>
    ELSE
      LET c == f[i] IN
      CASE mode = "quoted" /\ c = "\"" -> Unquote(f, i + 1, "quote")
        [] mode = "quoted" -> <<c>> \o Unquote(f, i + 1, "quoted")
        [] mode = "quote" /\ c = "\"" -> <<c>> \o Unquote(f, i + 1, "quoted")
        [] mode = "plain" /\ c = "\"" /\ i = 1 -> Unquote(f, i + 1, "quoted")
        [] OTHER -> <<c>> \o Unquote(f, i + 1, "plain")

ParseLine(line) ==
    LET fs == Pieces(line, ",", TRUE)
    IN  [k \in 1..Len(fs) |-> Unquote(fs[k], 1, "plain")]

ParseCsv(s) ==
    LET ls == Pieces(s, "\n", FALSE)
    IN  [k \in 1..Len(ls) |-> ParseLine(ls[k])]

DigitChars == {"0", "1", "2", "3", "4", "5", "6", "7", "8", "9"}

IsNumber(f) == f # <<>> /\ \A i \in 1..Len(f) : f[i] \in DigitChars

RECURSIVE NumberOf(_)
NumberOf(f) ==
    IF f = <<>> THEN 0
    ELSE 10 * NumberOf(SubSeq(f, 1, Len(f) - 1))
         + (CHOOSE d \in 0..9 : Digits(d) = <<f[Len(f)]>>)

\* A typed reading of the parsed rows, the way a data frame library reads a
\* file back: an empty field is a missing value, and a column whose other
\* fields are all numbers is a column of numbers
TypedCell(rows, j, i) ==
    LET f == rows[j][i]
        numeric == \A k \in 1..Len(rows) : rows[k][i] = <<>> \/ IsNumber(rows[k][i])
    IN  IF f = <<>> THEN Null
        ELSE IF numeric THEN Num(NumberOf(f))
        ELSE Str(f)

ReadBack(rows) ==
    [j \in 1..Len(rows) |-> [i \in 1..Len(rows[j]) |-> TypedCell(rows, j, i)]]

\* the rows of a frame as the texts the export writes for their cells
TextRows(frame) ==
    [j \in 1..Len(frame) |->
        [i \in 1..Len(Columns) |-> CellText(RowCells(frame[j])[i])]]

(* C8 as stated: parsing the exported payload gives back the columns and   *)
(* the rows of the filtered frame, cell for cell.                          *)
C8_RoundTripExact ==
    vpc = "done" =>
        LET parsed == ParseCsv(csv) IN
          /\ parsed # <<>>
          /\ Head(parsed) = Columns
          /\ ReadBack(Tail(parsed)) =
               [j \in 1..Len(df_filtrado) |-> RowCells(df_filtrado[j])]

(* C8 as amended: parsing the exported payload gives the column names in   *)
(* order and one row of fields per row of the filtered frame, in order,    *)
(* each field being the text the export writes for the cell (nothing for a *)
(* missing value, a number in decimal).                                    *)
C8_RoundTripText ==
    vpc = "done" =>
        ParseCsv(csv) = <<Columns>> \o TextRows(df_filtrado)

\* two rows exported, with a name that needs quoting and a missing subcategory
C8_Witness ==
    /\ vpc = "done"
    /\ Len(df_filtrado) = 2
    /\ \E j \in 1..2 : NeedsQuote(CellText(df_filtrado[j].name))
    /\ \E j \in 1..2 : df_filtrado[j].sub = Null

====
